---- MODULE Spec2Model ----
(***************************************************************************)
(* A model of TrendGen-CLI: the TTL cache, the source adapters and the     *)
(* trend aggregator, and the pipeline orchestrator.                        *)
(*                                                                         *)
(* Strings are sequences of tokens, so that concatenation is \o and a      *)
(* template literal is the concatenation of its parts.  A JavaScript array *)
(* is a sequence.  null is the empty tuple and a value v that may be null  *)
(* is carried as <<v>>.  Relevance scores are in tenths (0.7 is 7).        *)
(***************************************************************************)
EXTENDS Integers, Sequences, FiniteSets, TLC

VARIABLES
  cache,      \* CacheManager.cache: key -> [data, expires]
  now,        \* Date.now(), in milliseconds
  lastOp,     \* the last cache call and what it returned
  lastSet,    \* per key, the arguments and time of the latest set
  keyIn,      \* the inputs of generateKey
  keyOut,     \* the keys generateKey derived from keyIn
  config,     \* the configuration object (config.ts)
  keywords,   \* the keyword array handed to analyzeTrends, which the adapters sort in place
  calls,      \* analyzeTrends: per source, the promise of its adapter call
  trendsData, \* analyzeTrends: the snapshot it returned, or null
  tpc,        \* analyzeTrends: "idle", "waiting" (at the allSettled barrier), "returned"
  options,    \* runPipeline: the options the caller passed
  pc,         \* runPipeline: the step the run is at
  steps,      \* runPipeline: the steps entered so far, in order
  selected,   \* runPipeline: the keywords step 1 chose and the branch that chose them, or null
  postIdeas,  \* runPipeline: the local postIdeas
  content,    \* runPipeline: the local content (generatedContent while step 4 runs)
  currentPost,\* runPipeline: the local currentPost
  result,     \* runPipeline: the PipelineResult the call resolved with, or null
  disk,       \* current_post/ and logs/ on disk
  llm,        \* the requests made to the language model so far
  rendered,   \* generatePlatformContent: how the turn of each pair so far ended
  exitCode,   \* cli.ts: the code the process exited with, or null
  arg,        \* the arguments of a function looked at on its own
  ret,        \* what that function returned for arg, or null
  logged      \* the calls of Logger.logPost so far

cacheVars == <<cache, now, lastOp, lastSet>>
keyVars == <<keyIn, keyOut>>
trendVars == <<config, keywords, calls, trendsData, tpc>>
pipeVars == <<options, pc, steps, selected, postIdeas, content, currentPost, result, disk, llm,
             rendered, exitCode>>
fnVars == <<arg, ret, logged>>
vars == <<cache, now, lastOp, lastSet, keyIn, keyOut, config, keywords, calls, trendsData, tpc,
          options, pc, steps, selected, postIdeas, content, currentPost, result, disk, llm,
          rendered, exitCode, arg, ret, logged>>

Null == <<>>
Some(v) == <<v>>

(***************************************************************************)
(* Strings in the order of the default Array.prototype.sort (by UTF-16     *)
(* code unit); every string the model sorts is listed here.                *)
(***************************************************************************)
StrOrder == <<"ai", "btc", "businessType", "eth", "keywords", "location", "sol", "ukCity">>

Rank(s) == CHOOSE i \in 1..Len(StrOrder) : StrOrder[i] = s

StrLess(a, b) == Rank(a) < Rank(b)

RECURSIVE Insert(_, _)
Insert(x, s) ==
  IF s = <<>> THEN <<x>>
  ELSE IF StrLess(x, Head(s)) THEN <<x>> \o s
  ELSE <<Head(s)>> \o Insert(x, Tail(s))

\* Array.prototype.sort() without a comparator
RECURSIVE SortStrings(_)
SortStrings(s) == IF s = <<>> THEN <<>> ELSE Insert(Head(s), SortStrings(Tail(s)))

\* Array.prototype.join(sep), on an array of strings given as tokens
RECURSIVE Join(_, _)
Join(parts, sep) ==
  IF parts = <<>> THEN <<>>
  ELSE IF Len(parts) = 1 THEN parts[1]
  ELSE parts[1] \o <<sep>> \o Join(Tail(parts), sep)

\* String(array): the elements joined by ","
ArrayToString(arr) == Join([i \in 1..Len(arr) |-> <<arr[i]>>], ",")

(***************************************************************************)
(* cache.ts: CacheManager                                                  *)
(***************************************************************************)

\* Object.keys(params): the names in insertion order
ObjectKeys(params) == [i \in 1..Len(params) |-> params[i][1]]

\* params[key]
Lookup(params, name) == params[CHOOSE i \in 1..Len(params) : params[i][1] = name][2]

\* a slip: the names are not sorted before they are joined
generateKeyUnsorted(prefix, params) ==
  LET names == ObjectKeys(params)
      parts == [i \in 1..Len(names) |->
                  <<names[i], ":">> \o ArrayToString(Lookup(params, names[i]))]
  IN  <<prefix, ":">> \o Join(parts, "|")

generateKey(prefix, params) ==
  LET sortedNames == SortStrings(ObjectKeys(params))
      sortedParams == [i \in 1..Len(sortedNames) |->
                  <<sortedNames[i], ":">> \o ArrayToString(Lookup(params, sortedNames[i]))]
  IN  <<prefix, ":">> \o Join(sortedParams, "|")

Without(c, key) == [k \in (DOMAIN c) \ {key} |-> c[k]]

\* a slip: an entry is still served at the instant it expires
CacheGetInclusive(c, key, t) ==
  IF key \in DOMAIN c /\ c[key].expires >= t
  THEN [ret |-> Some(c[key].data), cache |-> c]
  ELSE IF key \in DOMAIN c
  THEN [ret |-> Null, cache |-> Without(c, key)]
  ELSE [ret |-> Null, cache |-> c]

\* get(key) at time t: what it returns and the map it leaves
CacheGet(c, key, t) ==
  IF key \in DOMAIN c /\ c[key].expires > t
  THEN [ret |-> Some(c[key].data), cache |-> c]
  ELSE IF key \in DOMAIN c
  THEN [ret |-> Null, cache |-> Without(c, key)]
  ELSE [ret |-> Null, cache |-> c]

\* a slip: a set on a key that is present keeps the expiry of the old entry
CacheSetKeepsExpiry(c, key, data, ttlSeconds, t) ==
  [k \in (DOMAIN c) \cup {key} |->
     IF k = key
     THEN [data |-> data,
           expires |-> IF key \in DOMAIN c THEN c[key].expires ELSE t + (ttlSeconds * 1000)]
     ELSE c[k]]

\* set(key, data, ttlSeconds) at time t: the map it leaves
CacheSet(c, key, data, ttlSeconds, t) ==
  [k \in (DOMAIN c) \cup {key} |->
     IF k = key THEN [data |-> data, expires |-> t + (ttlSeconds * 1000)] ELSE c[k]]

EmptyCache == [k \in {} |-> Null]

(***************************************************************************)
(* What the network gives one request.  "ok" is a 2xx answer that parses;  *)
(* the other three are the failures: the request throws, the status is not *)
(* 2xx, the payload does not parse.                                        *)
(***************************************************************************)
FailureKinds == {"networkError", "badStatus", "unparseable"}
NetOutcomes == FailureKinds \cup {"ok"}

Fulfilled(v, c) == [status |-> "fulfilled", value |-> v, cache |-> c]
Pending(c) == [status |-> "pending", value |-> <<>>, cache |-> c]

\* Array.prototype.slice(0, n)
Take(s, n) == SubSeq(s, 1, IF Len(s) < n THEN Len(s) ELSE n)

\* Array.from(new Set(s)): the first occurrence of each element, in order
RECURSIVE Dedup(_)
Dedup(s) ==
  IF s = <<>> THEN <<>>
  ELSE LET front == Dedup(SubSeq(s, 1, Len(s) - 1))
           last == s[Len(s)]
       IN  IF \E i \in 1..Len(front) : front[i] = last THEN front ELSE Append(front, last)

\* sort((a, b) => b.relevance_score - a.relevance_score): falling score, stable
RECURSIVE InsertByRelevance(_, _)
InsertByRelevance(x, s) ==
  IF s = <<>> THEN <<x>>
  ELSE IF x.relevance_score >= Head(s).relevance_score THEN <<x>> \o s
  ELSE <<Head(s)>> \o InsertByRelevance(x, Tail(s))

RECURSIVE SortByRelevance(_)
SortByRelevance(s) ==
  IF s = <<>> THEN <<>> ELSE InsertByRelevance(Head(s), SortByRelevance(Tail(s)))

RECURSIVE Flatten(_)
Flatten(ss) == IF ss = <<>> THEN <<>> ELSE Head(ss) \o Flatten(Tail(ss))

\* "const cached = await cache.get(cacheKey); if (cached) return cached;"
\* every value the adapters store is an array, which is truthy even when empty
CachedOrPending(c, cacheKey, t) ==
  LET got == CacheGet(c, cacheKey, t) IN
  IF got.ret # Null THEN Fulfilled(got.ret[1], got.cache) ELSE Pending(got.cache)

(***************************************************************************)
(* sources/google.ts: GoogleTrendsService                                  *)
(***************************************************************************)
\* what the suggestion endpoint answers for a keyword
SuggestionsFor(keyword) == <<keyword, "crypto">>

googleKey(kws, location) ==
  generateKey("google-trends", <<<<"keywords", SortStrings(kws)>>, <<"location", <<location>>>>>>)

\* every failure is caught inside and gives []
getKeywordSuggestions(keyword, net) ==
  IF net = "ok" THEN Take(SelectSeq(SuggestionsFor(keyword), LAMBDA x : x # ""), 10) ELSE <<>>

\* the try block of getAutocompleteSuggestions, after a cache miss; nets[i] is
\* the outcome of the request for kws[i]
getAutocompleteSuggestions(c, t, kws, location, nets) ==
  LET suggestions == Dedup(Flatten([i \in 1..Len(kws) |-> getKeywordSuggestions(kws[i], nets[i])]))
      limited == Take(suggestions, 30)
  IN  Fulfilled(limited, CacheSet(c, googleKey(kws, location), limited, 2 * 60 * 60, t))

(***************************************************************************)
(* sources/google.ts: XcomScraperService                                   *)
(***************************************************************************)
XcomKey == <<"xcom-trends", ":", "uk">>

\* what the scrape finds on the trends page
XcomPage == <<"#bitcoin", "#ai">>

getFallbackTrends ==
  <<"#UKNews", "#Britain", "#London", "#Manchester", "#Birmingham",
    "#CostOfLiving", "#UKBusiness", "#LocalBusiness", "#UKWeather", "#BritishPolitics">>

\* scrapeTrends rethrows a failed request or status; parseHtmlForTrends catches
\* its own errors and finds nothing in a page it cannot read
scrapeTrends(net) ==
  IF net \in {"networkError", "badStatus"} THEN [threw |-> TRUE, value |-> <<>>]
  ELSE IF net = "unparseable" THEN [threw |-> FALSE, value |-> <<>>]
  ELSE [threw |-> FALSE, value |-> Take(XcomPage, 20)]

\* the try block of getUKTrends, after a cache miss
getUKTrends(c, t, net) ==
  LET r == scrapeTrends(net) IN
  IF r.threw THEN Fulfilled(getFallbackTrends, c)
  ELSE Fulfilled(r.value, CacheSet(c, XcomKey, r.value, 2 * 60 * 60, t))

(***************************************************************************)
(* sources/reddit.ts: CoinGeckoService                                     *)
(***************************************************************************)
CoinKey == <<"coingecko", ":", "trending">>

CoinPayload == <<[name |-> "Pepe", symbol |-> "PEPE", rank |-> 30]>>

parseTrendingResponse(data) == Take(data, 10)

\* the try block of getTrendingCoins, after a cache miss
getTrendingCoins(c, t, net) ==
  IF net \in FailureKinds THEN Fulfilled(<<>>, c)
  ELSE LET coins == parseTrendingResponse(CoinPayload) IN
       Fulfilled(coins, CacheSet(c, CoinKey, coins, 2 * 60 * 60, t))

(***************************************************************************)
(* sources/reddit.ts: RedditAnalysisService                                *)
(***************************************************************************)
redditKey(kws, ukCity) ==
  generateKey("reddit-discussions", <<<<"keywords", SortStrings(kws)>>, <<"ukCity", <<ukCity>>>>>>)

RedditPosts == <<[title |-> "ETF flows", score |-> 12, comments |-> 3]>>

\* the token request and then the searches; the searches happen only with a token
RedditNets ==
  { [auth |-> k, search |-> k] : k \in FailureKinds } \cup
  { [auth |-> "ok", search |-> k] : k \in NetOutcomes }

\* every failure of a search is caught inside and gives []
searchSubreddit(net) == IF net = "ok" THEN RedditPosts ELSE <<>>

\* the try block of getRelevantDiscussions, after a cache miss: a failed token
\* request throws into the catch; failed searches leave an empty list, which is
\* cached like any other
getRelevantDiscussions(c, t, kws, ukCity, net) ==
  IF net.auth # "ok" THEN Fulfilled(<<>>, c)
  ELSE LET sortedDiscussions == Take(searchSubreddit(net.search), 15) IN
       Fulfilled(sortedDiscussions,
                 CacheSet(c, redditKey(kws, ukCity), sortedDiscussions, 2 * 60 * 60, t))

(***************************************************************************)
(* sources/news.ts: NewsAnalysisService                                    *)
(***************************************************************************)
newsKey(kws, businessType, ukCity) ==
  generateKey("news-articles",
    <<<<"keywords", SortStrings(kws)>>, <<"businessType", <<businessType>>>>, <<"ukCity", <<ukCity>>>>>>)

\* the articles of the feeds, with the score (in tenths) the ranking gives each
FeedArticles ==
  <<[headline |-> "Fed holds rates", relevance_score |-> 2],
    [headline |-> "AI agents ship", relevance_score |-> 5],
    [headline |-> "BTC hits new high", relevance_score |-> 9]>>

\* parseFeed and getNewsApiArticles catch every failure and give []
getRssArticles(net) == IF net = "ok" THEN FeedArticles ELSE <<>>

\* the filter and the sort of rankArticlesByRelevance
rankArticlesByRelevance(articles) ==
  SortByRelevance(SelectSeq(articles, LAMBDA a : a.relevance_score > 2))

\* the try block of getRelevantArticles, after a cache miss
getRelevantArticles(c, t, kws, businessType, ukCity, net) ==
  LET relevantArticles == Take(rankArticlesByRelevance(getRssArticles(net)), 10) IN
  Fulfilled(relevantArticles,
            CacheSet(c, newsKey(kws, businessType, ukCity), relevantArticles, 4 * 60 * 60, t))


(***************************************************************************)
(* trends.ts: analyzeTrends                                                *)
(***************************************************************************)
\* the order of the array handed to Promise.allSettled
Sources == <<"google", "xcom", "coingecko", "reddit", "news">>
SourceSet == {"google", "xcom", "coingecko", "reddit", "news"}

RedditActive(cfg) == cfg.sources.reddit.enabled /\ cfg.sources.reddit.credentials

\* whether analyzeTrends calls the adapter of source a and the adapter passes
\* its own "skip if not enabled" test
Attempted(cfg, a) ==
  CASE a = "google" -> cfg.sources.googleTrends
    [] a = "xcom" -> cfg.sources.xcom
    [] a = "coingecko" -> cfg.sources.coingecko
    [] a = "reddit" -> RedditActive(cfg)
    [] a = "news" -> cfg.sources.news.enabled

\* the adapters of google, reddit and news call keywords.sort() on the
\* caller's array before they build their key
SortsKeywords(cfg) ==
  cfg.sources.googleTrends \/ RedditActive(cfg) \/ cfg.sources.news.enabled

CacheKeyOf(cfg, a, kws) ==
  CASE a = "google" -> googleKey(kws, cfg.business.city)
    [] a = "xcom" -> XcomKey
    [] a = "coingecko" -> CoinKey
    [] a = "reddit" -> redditKey(kws, cfg.business.city)
    [] a = "news" -> newsKey(kws, cfg.business.type, cfg.business.city)

\* the call of one adapter up to its first request: a source that is switched
\* off resolves to [], a cached value is returned, otherwise the call is pending
CallAdapter(cfg, a, kws, c, t) ==
  IF Attempted(cfg, a) THEN CachedOrPending(c, CacheKeyOf(cfg, a, kws), t)
  ELSE Fulfilled(<<>>, c)

\* the rest of a pending call, given what the network answers
FetchAdapter(cfg, a, kws, c, t, net) ==
  CASE a = "google" -> getAutocompleteSuggestions(c, t, kws, cfg.business.city, net)
    [] a = "xcom" -> getUKTrends(c, t, net[1])
    [] a = "coingecko" -> getTrendingCoins(c, t, net[1])
    [] a = "reddit" ->
         getRelevantDiscussions(c, t, kws, cfg.business.city, [auth |-> net[1], search |-> net[2]])
    [] a = "news" -> getRelevantArticles(c, t, kws, cfg.business.type, cfg.business.city, net[1])

\* the answers the network can give the requests of one adapter call: one per
\* keyword for google, the token request and the searches for reddit
NetsOf(a, kws) ==
  CASE a = "google" ->
         { [i \in 1..Len(kws) |-> k] : k \in NetOutcomes } \cup
         { [i \in 1..Len(kws) |-> IF i = j THEN "ok" ELSE "networkError"] : j \in 1..Len(kws) }
    [] a = "reddit" -> { <<n.auth, n.search>> : n \in RedditNets }
    [] OTHER -> { <<k>> : k \in NetOutcomes }

\* the calls in the array literal, evaluated left to right
RECURSIVE CallAll(_, _, _, _, _)
CallAll(cfg, kws, c, t, i) ==
  IF i > Len(Sources) THEN [calls |-> <<>>, cache |-> c]
  ELSE LET r == CallAdapter(cfg, Sources[i], kws, c, t)
           rest == CallAll(cfg, kws, r.cache, t, i + 1)
       IN  [calls |-> <<[status |-> r.status, value |-> r.value, net |-> <<>>]>> \o rest.calls,
            cache |-> rest.cache]

\* a slip: a rejected or missing result keeps whatever the promise carried
SettledValueKeepsAll(call) == call.value

\* "x.status === 'fulfilled' ? x.value : []"
SettledValue(call) == IF call.status = "fulfilled" THEN call.value ELSE <<>>

Snapshot(cs) == [a \in SourceSet |-> SettledValue(cs[a])]

NoCalls == [a \in SourceSet |-> [status |-> "idle", value |-> <<>>, net |-> <<>>]]


(***************************************************************************)
(* The cache under arbitrary calls and a running clock                     *)
(***************************************************************************)
MaxClock == 3000
TickSteps == {500, 1000}
TtlChoices == {1, 2}
DataChoices == {<<"btc">>, <<"eth", "sol">>}
CacheKeys ==
  { generateKey("google-trends", <<<<"keywords", <<"btc", "eth">>>>, <<"location", <<"global">>>>>>),
    <<"xcom-trends", ":", "uk">> }

NoOp == [op |-> "none", key |-> <<>>, ret |-> Null, at |-> 0, had |-> Null]

\* config.example.ts, the first configuration of the file
ExampleSources ==
  [googleTrends |-> TRUE, xcom |-> FALSE, coingecko |-> TRUE,
   reddit |-> [enabled |-> FALSE, credentials |-> FALSE],
   news |-> [enabled |-> TRUE]]

Business == [name |-> "DgenKing", type |-> "Crypto Influencer", city |-> "Global"]

\* config.example.ts, output: a pool of two of its keywords stands for the list
ExampleOutput ==
  [platforms |-> <<"twitter", "instagram", "facebook">>,
   keywords |-> <<"sol", "ai">>,
   keywordsPerRun |-> 3, maxKeywords |-> 6, maxPostIdeas |-> 3, maxContentPerIdea |-> 1,
   logToFile |-> TRUE]

\* config.image as image.ts reads it; imageChance is in tenths
ExampleImage == [enabled |-> TRUE, imageChance |-> 5]

ExampleConfig ==
  [business |-> Business, sources |-> ExampleSources, output |-> ExampleOutput,
   image |-> ExampleImage]

\* runPipeline called with no options
NoOptions == [keywords |-> <<>>, skipContent |-> FALSE, platforms |-> Null]

\* no current_post directory, no logs
EmptyDisk ==
  [currentPostDir |-> FALSE, postJson |-> Null, image |-> FALSE,
   postLogs |-> <<>>, processLogs |-> 0]

NoLlm == [keywords |-> "none", ideas |-> "none", content |-> 0, image |-> 0]

PipeIdle ==
  /\ options = NoOptions
  /\ pc = "idle"
  /\ steps = <<>>
  /\ selected = Null
  /\ postIdeas = <<>>
  /\ content = <<>>
  /\ currentPost = Null
  /\ result = Null
  /\ disk = EmptyDisk
  /\ llm = NoLlm
  /\ rendered = <<>>
  /\ exitCode = Null

FnIdle ==
  /\ arg = Null
  /\ ret = Null
  /\ logged = <<>>

\* the variables a specification does not use stay as they are here
KeyIdle == keyIn = Null /\ keyOut = Null

TrendIdle ==
  /\ config = ExampleConfig
  /\ keywords = <<>>
  /\ calls = NoCalls
  /\ trendsData = Null
  /\ tpc = "idle"

CacheFrame == <<keyVars, trendVars, pipeVars, fnVars>>
KeyFrame == <<cacheVars, trendVars, pipeVars, fnVars>>
TrendFrame == <<lastOp, lastSet, keyVars, pipeVars, fnVars>>
PipeFrame == <<now, lastOp, lastSet, keyVars, tpc, exitCode, fnVars>>

CacheInit ==
  /\ cache = EmptyCache
  /\ now = 0
  /\ lastOp = NoOp
  /\ lastSet = [k \in CacheKeys |-> Null]
  /\ KeyIdle
  /\ TrendIdle
  /\ PipeIdle
  /\ FnIdle

Get(key) ==
  LET r == CacheGet(cache, key, now) IN
  /\ cache' = r.cache
  /\ lastOp' = [op |-> "get", key |-> key, ret |-> r.ret, at |-> now,
                had |-> IF key \in DOMAIN cache THEN Some(cache[key]) ELSE Null]
  /\ UNCHANGED <<now, lastSet, CacheFrame>>

Set(key, data, ttlSeconds) ==
  /\ cache' = CacheSet(cache, key, data, ttlSeconds, now)
  /\ lastOp' = [op |-> "set", key |-> key, ret |-> Null, at |-> now,
                had |-> IF key \in DOMAIN cache THEN Some(cache[key]) ELSE Null]
  /\ lastSet' = [lastSet EXCEPT ![key] = Some([data |-> data, ttl |-> ttlSeconds, at |-> now])]
  /\ UNCHANGED <<now, CacheFrame>>

Tick(d) ==
  /\ now + d <= MaxClock
  /\ now' = now + d
  /\ lastOp' = NoOp
  /\ UNCHANGED <<cache, lastSet, CacheFrame>>

CacheNext ==
  \/ \E key \in CacheKeys : Get(key)
  \/ \E key \in CacheKeys, data \in DataChoices, ttl \in TtlChoices : Set(key, data, ttl)
  \/ \E d \in TickSteps : Tick(d)

CacheSpec == CacheInit /\ [][CacheNext]_vars

(***************************************************************************)
(* generateKey on two insertion orders of one parameter mapping            *)
(***************************************************************************)
RECURSIVE Perms(_)
Perms(S) ==
  IF S = {} THEN {<<>>}
  ELSE UNION { { <<x>> \o p : p \in Perms(S \ {x}) } : x \in S }

ParamNames == {"keywords", "location", "businessType"}
ParamValues == {<<"btc">>, <<"eth", "btc">>}
KeyPrefixes == {"google-trends", "news-articles"}

\* the mappings: every non-empty set of names, every value for each
ParamMaps(names) == [names -> ParamValues]

\* the insertion orders of mapping m over names
Orders(names, m) == { [i \in 1..Len(p) |-> <<p[i], m[p[i]]>>] : p \in Perms(names) }

KeyInputs ==
  UNION { UNION { { [prefix |-> pre, a |-> a, b |-> b] :
                      pre \in KeyPrefixes, a \in Orders(names, m), b \in Orders(names, m) }
                  : m \in ParamMaps(names) }
          : names \in (SUBSET ParamNames) \ {{}} }

CacheIdle ==
  /\ cache = EmptyCache
  /\ now = 0
  /\ lastOp = NoOp
  /\ lastSet = [k \in CacheKeys |-> Null]

KeyInit ==
  /\ keyIn \in { Some(i) : i \in KeyInputs }
  /\ keyOut = Null
  /\ CacheIdle
  /\ TrendIdle
  /\ PipeIdle
  /\ FnIdle

DeriveKeys ==
  /\ keyIn # Null
  /\ keyOut = Null
  /\ keyOut' = Some([a |-> generateKey(keyIn[1].prefix, keyIn[1].a),
                     b |-> generateKey(keyIn[1].prefix, keyIn[1].b)])
  /\ UNCHANGED <<keyIn, KeyFrame>>

KeyNext == DeriveKeys

KeySpec == KeyInit /\ [][KeyNext]_vars

(***************************************************************************)
(* analyzeTrends: the adapter calls start together, settle in any order,   *)
(* and the snapshot is built once all have settled                         *)
(***************************************************************************)
RedditConfigs ==
  { [enabled |-> FALSE, credentials |-> FALSE],
    [enabled |-> TRUE, credentials |-> FALSE],
    [enabled |-> TRUE, credentials |-> TRUE] }

SourceConfigs ==
  [googleTrends : BOOLEAN, xcom : BOOLEAN, coingecko : BOOLEAN,
   reddit : RedditConfigs, news : [enabled : BOOLEAN]]

KeywordInputs == {<<"eth", "btc">>, <<"ai">>}

TrendInit ==
  /\ config \in { [ExampleConfig EXCEPT !.sources = src] : src \in SourceConfigs }
  /\ keywords \in KeywordInputs
  /\ calls = NoCalls
  /\ trendsData = Null
  /\ tpc = "idle"
  /\ CacheIdle
  /\ KeyIdle
  /\ PipeIdle
  /\ FnIdle

\* the synchronous part of analyzeTrends: every adapter is called before the
\* first await, and each call runs up to its own first request
AnalyzeStart ==
  /\ tpc = "idle"
  /\ LET r == CallAll(config, keywords, cache, now, 1) IN
     /\ calls' = [a \in SourceSet |-> r.calls[CHOOSE i \in 1..Len(Sources) : Sources[i] = a]]
     /\ cache' = r.cache
  /\ keywords' = IF SortsKeywords(config) THEN SortStrings(keywords) ELSE keywords
  /\ tpc' = "waiting"
  /\ UNCHANGED <<now, config, trendsData, TrendFrame>>

\* the requests of one pending adapter call come back and the call settles
Settle(a) ==
  /\ tpc = "waiting"
  /\ calls[a].status = "pending"
  /\ \E net \in NetsOf(a, keywords) :
       LET r == FetchAdapter(config, a, keywords, cache, now, net) IN
       /\ calls' = [calls EXCEPT ![a] = [status |-> r.status, value |-> r.value, net |-> net]]
       /\ cache' = r.cache
  /\ UNCHANGED <<now, config, keywords, trendsData, tpc, TrendFrame>>

\* a slip: the join resolves with the first call that settles
FirstSettled(cs) == \E a \in SourceSet : cs[a].status \in {"fulfilled", "rejected"}

\* Promise.allSettled: every promise of the array has settled
AllSettled(cs) == \A a \in SourceSet : cs[a].status \in {"fulfilled", "rejected"}

\* Promise.allSettled resolves; the snapshot is built and returned
AnalyzeJoin ==
  /\ tpc = "waiting"
  /\ AllSettled(calls)
  /\ trendsData' = Some(Snapshot(calls))
  /\ tpc' = "returned"
  /\ UNCHANGED <<now, cache, config, keywords, calls, TrendFrame>>

TrendNext ==
  \/ AnalyzeStart
  \/ \E a \in SourceSet : Settle(a)
  \/ AnalyzeJoin

TrendSpec == TrendInit /\ [][TrendNext]_vars

(***************************************************************************)
(* keywords.ts, trends.ts (post ideas), content.ts, logger.ts, image.ts:   *)
(* what the pipeline steps call                                            *)
(***************************************************************************)
Min(a, b) == IF a < b THEN a ELSE b

\* String.prototype.trim on the keyword strings of this model
Trim(s) == CASE s = " ai " -> "ai" [] s = " " -> "" [] OTHER -> s

\* the comma-separated items of the keyword line are trimmed, the empty ones
\* dropped and twelve kept (the items here are shorter than 50 characters)
parseKeywordsFromResponse(items) ==
  Take(SelectSeq([i \in 1..Len(items) |-> Trim(items[i])], LAMBDA k : k # ""), 12)

\* "x || d" on a field that may be missing: d replaces a missing value and
\* the falsy one (zero is "" for a text, 0 for a number)
OrElse(f, zero, d) == IF f = Null \/ f[1] = zero THEN d ELSE f[1]

\* a fallback idea has no business_benefit
getFallbackPostIdeas(td) ==
  <<[id |-> <<"idea_1">>, concept |-> <<"BTC dominance shifting again">>,
     trend_source |-> IF Len(td["news"]) > 0
                      THEN <<"News: ", td["news"][1].headline, "...">>
                      ELSE <<"General: Crypto market trends">>,
     relevance_score |-> 7, business_benefit |-> Null],
    [id |-> <<"idea_2">>, concept |-> <<"New AI model just dropped">>,
     trend_source |-> <<"General: AI model releases">>,
     relevance_score |-> 7, business_benefit |-> Null],
    [id |-> <<"idea_3">>, concept |-> <<"Altcoin season incoming signals">>,
     trend_source |-> IF Len(td["coingecko"]) > 0
                      THEN <<"CoinGecko: ", td["coingecko"][1].name, " (",
                             td["coingecko"][1].symbol, ") trending">>
                      ELSE <<"General: Crypto cycle analysis">>,
     relevance_score |-> 6, business_benefit |-> Null],
    [id |-> <<"idea_4">>, concept |-> <<"AI agents changing everything">>,
     trend_source |-> <<"General: Agentic AI trends">>,
     relevance_score |-> 6, business_benefit |-> Null],
    [id |-> <<"idea_5">>, concept |-> <<"Whale alert worth watching">>,
     trend_source |-> <<"General: On-chain data">>,
     relevance_score |-> 5, business_benefit |-> Null]>>

\* ideas.map(...): the defaults of one element at position index (from 1)
IdeaOf(idea, index) ==
  [id |-> <<"idea_", ToString(index)>>,
   concept |-> OrElse(idea.concept, <<>>, <<"Business idea ", ToString(index)>>),
   trend_source |-> OrElse(idea.trend_source, <<>>, <<"General trend analysis">>),
   relevance_score |-> OrElse(idea.relevance_score, 0, 5),
   business_benefit |-> Some(OrElse(idea.business_benefit, <<>>,
                                    <<"Provides engagement opportunity">>))]

\* the second copy of trends.ts (part_004) has its own fallback ideas, in
\* this order, and takes their sources from reddit and news
getFallbackPostIdeasB(td) ==
  <<[id |-> <<"idea_1">>, concept |-> <<"Local community support">>,
     trend_source |-> IF Len(td["reddit"]) > 0
                      THEN <<"Reddit: ", td["reddit"][1].title, "...">>
                      ELSE <<"General: Community engagement trends">>,
     relevance_score |-> 7, business_benefit |-> Null],
    [id |-> <<"idea_2">>, concept |-> <<"Customer appreciation post">>,
     trend_source |-> IF Len(td["news"]) > 0
                      THEN <<"BBC: ", td["news"][1].headline, "...">>
                      ELSE <<"Social media: Customer loyalty trends">>,
     relevance_score |-> 6, business_benefit |-> Null],
    [id |-> <<"idea_3">>, concept |-> <<"Behind the scenes content">>,
     trend_source |-> <<"Content: Transparency trends">>,
     relevance_score |-> 8, business_benefit |-> Null],
    [id |-> <<"idea_4">>, concept |-> <<"Local partnerships showcase">>,
     trend_source |-> <<"Business: Collaboration trends">>,
     relevance_score |-> 7, business_benefit |-> Null],
    [id |-> <<"idea_5">>, concept |-> <<"Seasonal service highlight">>,
     trend_source |-> <<"Seasonal: Current trends">>,
     relevance_score |-> 6, business_benefit |-> Null]>>

\* parsePostIdeasFromResponse of the second copy: the same but for its fallback
parsePostIdeasFromResponseB(reply, td) ==
  IF reply.kind # "array" THEN getFallbackPostIdeasB(td)
  ELSE IF \E i \in 1..Len(reply.elems) : ~reply.elems[i].object THEN getFallbackPostIdeasB(td)
  ELSE Take(SortByRelevance([i \in 1..Len(reply.elems) |-> IdeaOf(reply.elems[i], i)]), 8)

\* the reply has no [...] in it, or one that JSON.parse rejects, or one with an
\* element that is not an object (reading its concept throws): the fallback.
\* Otherwise the mapped elements, by falling score, the first eight.
parsePostIdeasFromResponse(reply, td) ==
  IF reply.kind # "array" THEN getFallbackPostIdeas(td)
  ELSE IF \E i \in 1..Len(reply.elems) : ~reply.elems[i].object THEN getFallbackPostIdeas(td)
  ELSE Take(SortByRelevance([i \in 1..Len(reply.elems) |-> IdeaOf(reply.elems[i], i)]), 8)

\* content.ts
Prefixes == <<"Here's the post:", "Post content:", "Caption:", "Tweet:", "Content:">>

\* A text is a sequence of pieces.  A character is a piece of its own where
\* lengths matter; a prefix is one piece, and so is a phrase of a short text.
Whitespace == {" ", "\n"}

\* String.prototype.trim: from the first piece that is not whitespace to
\* the last one
TrimText(text) ==
  LET inked == { i \in 1..Len(text) : text[i] \notin Whitespace } IN
  IF inked = {} THEN <<>>
  ELSE SubSeq(text, CHOOSE i \in inked : \A j \in inked : i <= j,
                    CHOOSE i \in inked : \A j \in inked : i >= j)

\* the indexes, counted from 0 as JavaScript does, where pat occurs in text
Occurrences(text, pat) ==
  { i \in 0..(Len(text) - Len(pat)) : \A k \in 1..Len(pat) : text[i + k] = pat[k] }

\* String.prototype.lastIndexOf(pat, from): the last index not above from, or -1
LastIndexOf(text, pat, from) ==
  LET found == { i \in Occurrences(text, pat) : i <= from } IN
  IF found = {} THEN -1 ELSE CHOOSE i \in found : \A j \in found : i >= j

\* String.prototype.indexOf(pat)
IndexOf(text, pat) ==
  LET found == Occurrences(text, pat) IN
  IF found = {} THEN -1 ELSE CHOOSE i \in found : \A j \in found : i <= j

Max(a, b) == IF a > b THEN a ELSE b

\* String.prototype.substring(0, n)
Substring(text, n) == SubSeq(text, 1, Min(n, Len(text)))

RECURSIVE StripPrefixes(_, _)
StripPrefixes(text, i) ==
  IF i > Len(Prefixes) THEN text
  ELSE IF text # <<>> /\ Head(text) = Prefixes[i]
       THEN StripPrefixes(TrimText(Tail(text)), i + 1)
  ELSE StripPrefixes(text, i + 1)

\* one pair of enclosing quotes is taken off
StripQuotes(text) ==
  IF text # <<>> /\ Head(text) = "\"" /\ text[Len(text)] = "\""
  THEN SubSeq(text, 2, Len(text) - 1)
  ELSE text

\* the cut of a tweet longer than 280: at the last paragraph break, or the
\* last sentence boundary, past index 150; else at the last space, with "..."
TruncateTweet(text) ==
  LET slice == Substring(text, 280)
      lastPara == LastIndexOf(slice, <<"\n", "\n">>, Len(slice))
      lastSentence == Max(LastIndexOf(slice, <<".", " ">>, Len(slice)),
                          Max(LastIndexOf(slice, <<"?", " ">>, Len(slice)),
                              LastIndexOf(slice, <<"!", " ">>, Len(slice))))
      lastSpace == LastIndexOf(slice, <<" ">>, 277)
  IN  IF lastPara > 150 THEN TrimText(Substring(slice, lastPara))
      ELSE IF lastSentence > 150 THEN TrimText(Substring(slice, lastSentence + 1))
      ELSE TrimText(Substring(slice, IF lastSpace > 0 THEN lastSpace ELSE 277))
             \o <<".", ".", ".">>

\* instagram: the hashtags go to a paragraph of their own
SplitHashtags(text) ==
  LET hashtagIndex == IndexOf(text, <<"#">>) IN
  IF IndexOf(text, <<"\n", "\n", "#">>) = -1 /\ hashtagIndex # -1
  THEN TrimText(Substring(text, hashtagIndex)) \o <<"\n", "\n">>
         \o SubSeq(text, hashtagIndex + 1, Len(text))
  ELSE text

cleanupGeneratedContent(text, platform) ==
  LET cleaned == StripQuotes(StripPrefixes(TrimText(text), 1)) IN
  IF platform = "twitter" /\ Len(cleaned) > 280 THEN TruncateTweet(cleaned)
  ELSE IF platform = "instagram" THEN SplitHashtags(cleaned)
  ELSE cleaned

\* what the twitter fallback puts after the concept, character by character
\* (a character outside ASCII is written by its code point)
TwitterTail ==
  <<" ", "U+00E2", "U+20AC", "U+201D", " ", "t", "h", "i", "s", " ", "i", "s",
    " ", "w", "o", "r", "t", "h", " ", "w", "a", "t", "c", "h",
    "i", "n", "g", ".", " ", "W", "h", "a", "t", "'", "s", " ",
    "y", "o", "u", "r", " ", "t", "a", "k", "e", "?", " ", "U+00F0",
    "U+0178", "U+2018", "U+2021", " ", "#", "C", "r", "y", "p", "t", "o", " ",
    "#", "A", "I">>

getFallbackContent(idea, platform) ==
  CASE platform = "instagram" ->
         idea.concept \o <<"\n\nThis is one to watch closely. Drop your thoughts in the comments\n\n#Crypto #Bitcoin #AITech #Web3 #DeFi">>
    [] platform = "facebook" ->
         idea.concept \o <<" - what do you think about this? Share your take in the comments, would love to hear from the community.">>
    [] OTHER -> idea.concept \o TwitterTail

\* what the language model writes for an idea and a platform
ModelText(idea, platform) ==
  <<"Tweet:", "\"">> \o idea.concept \o <<" is moving, says ", platform, "\"">>

\* logger.ts: the first six words of a post; a token of this model is a
\* phrase, and the first one stands for them
snippetFromPost(text) == Take(text, 1)

\* the file name of a post log: snippet, business name, platform and the time
\* to the second
PostLogName(businessName, platform, postText, t) ==
  <<snippetFromPost(postText), businessName, platform, t \div 1000>>

\* fs.writeFile creates the file or replaces the one of that name
WriteFile(files, name, text) ==
  IF \E i \in 1..Len(files) : files[i].name = name
  THEN [i \in 1..Len(files) |-> IF files[i].name = name THEN [name |-> name, text |-> text]
                                                       ELSE files[i]]
  ELSE Append(files, [name |-> name, text |-> text])

\* a slip: the post is not written
logPostNowhere(files, businessName, platform, postText, t) == files

logPost(files, businessName, platform, postText, t) ==
  WriteFile(files, PostLogName(businessName, platform, postText, t), postText)

\* Array.prototype.slice(-n): the last n elements, and all of them for n = 0
SliceLast(s, n) ==
  IF n = 0 \/ n >= Len(s) THEN s ELSE SubSeq(s, Len(s) - n + 1, Len(s))

\* getRecentPostSnippets: dir is the content of logs/post_logs in the order
\* of writing, or Null when the directory is missing; order is the order in
\* which readdir lists the files, which the file system decides.  Every file
\* logPost wrote holds the separator line, and the text after it is the post.
getRecentPostSnippets(dir, limit, order) ==
  IF dir = Null THEN <<>>
  ELSE LET files == [i \in 1..Len(dir[1]) |-> dir[1][order[i]]]
           recent == SliceLast(files, limit)
       IN  [i \in 1..Len(recent) |-> recent[i].text]

\* the orders in which readdir may list n files
ReadDirOrders(n) == { p \in [1..n -> 1..n] : \A i, j \in 1..n : p[i] = p[j] => i = j }

\* a slip: the loops the other way round, platform by platform and idea by idea
PairsPlatformMajor(selectedIdeas, platforms) ==
  [n \in 1..(Len(selectedIdeas) * Len(platforms)) |->
     [idea |-> selectedIdeas[((n - 1) % Len(selectedIdeas)) + 1],
      platform |-> platforms[((n - 1) \div Len(selectedIdeas)) + 1]]]

\* the two loops of generatePlatformContent, idea by idea and platform by platform
Pairs(selectedIdeas, platforms) ==
  [n \in 1..(Len(selectedIdeas) * Len(platforms)) |->
     [idea |-> selectedIdeas[((n - 1) \div Len(platforms)) + 1],
      platform |-> platforms[((n - 1) % Len(platforms)) + 1]]]

\* one turn of the loop body: the request and the post log are inside the
\* try, and the catch pushes the fallback text
ContentOutcomes == {"ok", "requestFails", "logFails"}

\* the entry pushed for a pair when the model's reply, if one comes, is reply
ContentFor(pair, reply, out) ==
  [idea |-> pair.idea.concept, platform |-> pair.platform,
   text |-> IF out = "ok"
            THEN cleanupGeneratedContent(reply, pair.platform)
            ELSE getFallbackContent(pair.idea, pair.platform)]

GeneratedFor(pair, out) == ContentFor(pair, ModelText(pair.idea, pair.platform), out)

\* image.ts, saveCurrentPost.  fsOut says which of its own two filesystem
\* calls fails, if any; roll is Math.random() in tenths; img is how the image
\* attempt ends.  The image file is on disk only when the download succeeded.
SaveFsOutcomes == {"ok", "mkdirFails", "writeFails"}
ImageOutcomes == {"ok", "promptFails", "apiFails", "downloadFails"}
Rolls == {2, 7}

\* a slip: the path set before the download stays when the download fails
saveCurrentPostKeepsPath(cfg, d, platform, postText, idea, fsOut, roll, img) ==
  LET generateImage == cfg.image.enabled /\ roll < cfg.image.imageChance
      imagePath == IF generateImage /\ img \in {"ok", "downloadFails"}
                   THEN Some("image") ELSE Null
      post == [platform |-> platform, text |-> postText, idea |-> idea, imagePath |-> imagePath]
      withDir == [d EXCEPT !.currentPostDir = TRUE]
      withImage == [withDir EXCEPT !.image = (d.image \/ (generateImage /\ img = "ok"))]
  IN  IF fsOut = "mkdirFails" THEN [threw |-> TRUE, post |-> Null, disk |-> d, prompts |-> 0]
      ELSE [threw |-> fsOut = "writeFails",
            post |-> IF fsOut = "writeFails" THEN Null ELSE Some(post),
            disk |-> IF fsOut = "writeFails" THEN withImage
                     ELSE [withImage EXCEPT !.postJson = Some(post)],
            prompts |-> IF generateImage THEN 1 ELSE 0]

saveCurrentPost(cfg, d, platform, postText, idea, fsOut, roll, img) ==
  LET generateImage == cfg.image.enabled /\ roll < cfg.image.imageChance
      imagePath == IF generateImage /\ img = "ok" THEN Some("image") ELSE Null
      post == [platform |-> platform, text |-> postText, idea |-> idea, imagePath |-> imagePath]
      withDir == [d EXCEPT !.currentPostDir = TRUE]
      withImage == [withDir EXCEPT !.image = (d.image \/ imagePath # Null)]
  IN  IF fsOut = "mkdirFails" THEN [threw |-> TRUE, post |-> Null, disk |-> d, prompts |-> 0]
      ELSE [threw |-> fsOut = "writeFails",
            post |-> IF fsOut = "writeFails" THEN Null ELSE Some(post),
            disk |-> IF fsOut = "writeFails" THEN withImage
                     ELSE [withImage EXCEPT !.postJson = Some(post)],
            prompts |-> IF generateImage THEN 1 ELSE 0]

(***************************************************************************)
(* pipeline.ts: runPipeline                                                *)
(***************************************************************************)
\* "options.platforms || [...config.output.platforms]"
PlatformsOf(opts, cfg) == IF opts.platforms # Null THEN opts.platforms[1] ELSE cfg.output.platforms

\* sourcesUsed, from the flags of the configuration
SourcesUsed(cfg) ==
  (IF cfg.sources.googleTrends THEN <<"google">> ELSE <<>>) \o
  (IF cfg.sources.xcom THEN <<"xcom">> ELSE <<>>) \o
  (IF cfg.sources.coingecko THEN <<"coingecko">> ELSE <<>>) \o
  (IF cfg.sources.reddit.enabled THEN <<"reddit">> ELSE <<>>) \o
  (IF cfg.sources.news.enabled THEN <<"news">> ELSE <<>>)

\* "config.output.keywords.filter(k => k.trim())"
NonBlank(pool) == SelectSeq(pool, LAMBDA k : Trim(k) # "")

\* a slip: the pool is looked at before the caller's keywords
KeywordBranchPoolFirst(opts, cfg) ==
  IF Len(NonBlank(cfg.output.keywords)) > 0 THEN "pool"
  ELSE IF Len(opts.keywords) > 0 THEN "cli" ELSE "llm"

\* the three branches of step 1
KeywordBranch(opts, cfg) ==
  IF Len(opts.keywords) > 0 THEN "cli"
  ELSE IF Len(NonBlank(cfg.output.keywords)) > 0 THEN "pool" ELSE "llm"

\* "[...pool].sort(() => Math.random() - 0.5).slice(0, count)": the first
\* count entries of some reordering of the pool
PoolPicks(cfg) ==
  LET pool == NonBlank(cfg.output.keywords)
      count == Min(cfg.output.keywordsPerRun, Len(pool))
  IN  { Take([i \in 1..Len(pool) |-> pool[p[i]]], count) : p \in Perms(1..Len(pool)) }

\* analyzeTrends from call to return, under one condition k of the network
UniformNets(a, kws, k) ==
  CASE a = "google" -> [i \in 1..Len(kws) |-> k]
    [] a = "reddit" -> <<k, k>>
    [] OTHER -> <<k>>

RECURSIVE SettleAll(_, _, _, _, _, _, _)
SettleAll(cfg, kws, cs, c, t, k, i) ==
  IF i > Len(Sources) THEN [calls |-> cs, cache |-> c]
  ELSE IF cs[i].status # "pending" THEN SettleAll(cfg, kws, cs, c, t, k, i + 1)
  ELSE LET net == UniformNets(Sources[i], kws, k)
           r == FetchAdapter(cfg, Sources[i], kws, c, t, net)
       IN  SettleAll(cfg, kws,
                     [cs EXCEPT ![i] = [status |-> r.status, value |-> r.value, net |-> net]],
                     r.cache, t, k, i + 1)

analyzeTrends(cfg, kws, c, t, k) ==
  LET started == CallAll(cfg, kws, c, t, 1)
      sorted == IF SortsKeywords(cfg) THEN SortStrings(kws) ELSE kws
      settled == SettleAll(cfg, sorted, started.calls, started.cache, t, k, 1)
      byName == [a \in SourceSet |->
                   settled.calls[CHOOSE i \in 1..Len(Sources) : Sources[i] = a]]
  IN  [calls |-> byName, cache |-> settled.cache, keywords |-> sorted,
       trendsData |-> Snapshot(byName)]

StepNames ==
  {"KeywordSelection", "TrendAnalysis", "IdeaGeneration", "ContentRendering",
   "Persistence", "Complete", "Error"}

\* a slip: step 4 runs whatever skipContent says
AfterIdeasAlwaysRenders(opts) == "ContentRendering"

\* "if (!options.skipContent)": step 4, or straight to the end of the run
\* (content is still [] there, so step 5 is passed over as well)
AfterIdeas(opts) == IF ~opts.skipContent THEN "ContentRendering" ELSE "Finishing"

\* "if (content.length > 0)": step 5, or the end of the run
AfterContent(generated) == IF Len(generated) > 0 THEN "Persistence" ELSE "Finishing"

\* a slip: the first entry is saved whatever its platform
PostToSaveFirst(generated) == generated[1]

\* "content.find(c => c.platform === 'twitter') || content[0]"
PostToSave(generated) ==
  IF \E i \in 1..Len(generated) : generated[i].platform = "twitter"
  THEN generated[CHOOSE i \in 1..Len(generated) :
                   /\ generated[i].platform = "twitter"
                   /\ \A j \in 1..(i - 1) : generated[j].platform # "twitter"]
  ELSE generated[1]

EmptyTrends == [a \in SourceSet |-> <<>>]

SuccessResult(cfg, kws, td, ideas, generated, post) ==
  [status |-> "success",
   keywords |-> Take(kws, cfg.output.maxKeywords),
   trends |-> td,
   postIdeas |-> Take(ideas, cfg.output.maxPostIdeas),
   content |-> generated,
   currentPost |-> post,
   meta |-> [sourcesUsed |-> SourcesUsed(cfg), keywordCount |-> Len(kws),
             ideasGenerated |-> Len(ideas), contentPieces |-> Len(generated)],
   error |-> Null]

\* a slip: the counts of the error result say what the configuration asks for
ErrorResultKeepsCounts(cfg, message) ==
  [status |-> "error", keywords |-> <<>>, trends |-> EmptyTrends, postIdeas |-> <<>>,
   content |-> <<>>, currentPost |-> Null,
   meta |-> [sourcesUsed |-> SourcesUsed(cfg), keywordCount |-> cfg.output.keywordsPerRun,
             ideasGenerated |-> cfg.output.maxPostIdeas, contentPieces |-> 0],
   error |-> Some(message)]

\* the result the catch block returns
ErrorResult(cfg, message) ==
  [status |-> "error", keywords |-> <<>>, trends |-> EmptyTrends, postIdeas |-> <<>>,
   content |-> <<>>, currentPost |-> Null,
   meta |-> [sourcesUsed |-> SourcesUsed(cfg), keywordCount |-> 0,
             ideasGenerated |-> 0, contentPieces |-> 0],
   error |-> Some(message)]

(***************************************************************************)
(* One call of runPipeline.  Each action is the code between two awaits    *)
(* whose outcome the environment decides.                                  *)
(***************************************************************************)
ExampleAllOff ==
  [googleTrends |-> FALSE, xcom |-> FALSE, coingecko |-> FALSE,
   reddit |-> [enabled |-> FALSE, credentials |-> FALSE],
   news |-> [enabled |-> FALSE]]

\* the pool of the second configuration of config.example.ts is two empty strings
PoolChoices ==
  { [keywords |-> <<"", "">>, keywordsPerRun |-> 3, maxKeywords |-> 6],
    [keywords |-> <<"sol", " ", "ai">>, keywordsPerRun |-> 1, maxKeywords |-> 6],
    [keywords |-> <<"sol", " ", "ai">>, keywordsPerRun |-> 3, maxKeywords |-> 1] }

OutputChoices ==
  { [platforms |-> <<"twitter">>, keywords |-> p.keywords, keywordsPerRun |-> p.keywordsPerRun,
     maxKeywords |-> p.maxKeywords, maxPostIdeas |-> 3, maxContentPerIdea |-> mc,
     logToFile |-> lf] :
    p \in PoolChoices, mc \in {1, 2}, lf \in BOOLEAN }

PipelineConfigs ==
  { [business |-> Business, sources |-> src, output |-> out,
     image |-> [enabled |-> en, imageChance |-> 5]] :
    src \in {ExampleSources, ExampleAllOff}, out \in OutputChoices, en \in BOOLEAN }

OptionChoices ==
  { [keywords |-> kw, skipContent |-> TRUE, platforms |-> Null] : kw \in {<<>>, <<"eth", "btc">>} }
  \cup
  { [keywords |-> kw, skipContent |-> FALSE, platforms |-> pf] :
    kw \in {<<>>, <<"eth", "btc">>}, pf \in {Null, Some(<<"instagram", "twitter">>)} }

\* what an earlier run left in current_post/
OldPost ==
  [platform |-> "twitter", text |-> <<"gm">>, idea |-> <<"gm">>, imagePath |-> Some("image")]

OldDisk ==
  [currentPostDir |-> TRUE, postJson |-> Some(OldPost), image |-> TRUE,
   postLogs |-> <<>>, processLogs |-> 1]

\* the items of the keyword line the language model may answer with
KeywordReplies == { <<"sol", " ai ", "">>, <<" ">> }

\* the replies the language model may give to the idea prompt
IdeaReplies ==
  { [kind |-> "noArray", elems |-> <<>>],
    [kind |-> "array", elems |-> <<>>],
    [kind |-> "array",
     elems |-> <<[object |-> TRUE, concept |-> Some(<<"ETF inflows">>),
                  trend_source |-> Some(<<"News">>), relevance_score |-> Some(4),
                  business_benefit |-> Null],
                 [object |-> TRUE, concept |-> Null, trend_source |-> Null,
                  relevance_score |-> Some(9), business_benefit |-> Some(<<"reach">>)]>>] }

PipelineNetworks == {"ok", "networkError"}

Init ==
  /\ options \in OptionChoices
  /\ config \in PipelineConfigs
  /\ disk = OldDisk
  /\ pc = "idle"
  /\ steps = <<>>
  /\ selected = Null
  /\ postIdeas = <<>>
  /\ content = <<>>
  /\ currentPost = Null
  /\ result = Null
  /\ llm = NoLlm
  /\ keywords = <<>>
  /\ calls = NoCalls
  /\ trendsData = Null
  /\ tpc = "idle"
  /\ rendered = <<>>
  /\ exitCode = Null
  /\ CacheIdle
  /\ KeyIdle
  /\ FnIdle

Enter(step) ==
  /\ pc' = step
  /\ steps' = IF step \in StepNames THEN Append(steps, step) ELSE steps

\* the catch block: the error is logged and the error result returned
Fail(message) ==
  /\ result' = Some(ErrorResult(config, message))
  /\ Enter("Error")

\* rm and mkdir of current_post, before the try block: an error of either
\* leaves runPipeline as a rejection of its promise
Begin ==
  /\ pc = "idle"
  /\ \E out \in {"ok", "rmFails", "mkdirFails"} :
       /\ disk' = IF out = "rmFails" THEN disk
                  ELSE [disk EXCEPT !.currentPostDir = (out = "ok"),
                                    !.postJson = Null, !.image = FALSE]
       /\ IF out = "ok" THEN Enter("KeywordSelection")
          ELSE pc' = "Thrown" /\ steps' = steps
  /\ UNCHANGED <<cache, config, keywords, calls, trendsData, options, selected, postIdeas,
                 content, currentPost, result, llm, rendered, PipeFrame>>

\* step 1
KeywordSelection ==
  /\ pc = "KeywordSelection"
  /\ LET branch == KeywordBranch(options, config) IN
     \/ /\ branch = "cli"
        /\ keywords' = options.keywords
        /\ selected' = Some([how |-> branch, keywords |-> options.keywords])
        /\ Enter("TrendAnalysis")
        /\ UNCHANGED <<llm, result>>
     \/ /\ branch = "pool"
        /\ \E pick \in PoolPicks(config) :
             /\ keywords' = pick
             /\ selected' = Some([how |-> branch, keywords |-> pick])
        /\ Enter("TrendAnalysis")
        /\ UNCHANGED <<llm, result>>
     \/ /\ branch = "llm"
        /\ \E reply \in KeywordReplies :
             /\ keywords' = parseKeywordsFromResponse(reply)
             /\ selected' = Some([how |-> branch, keywords |-> parseKeywordsFromResponse(reply)])
        /\ llm' = [llm EXCEPT !.keywords = "ok"]
        /\ Enter("TrendAnalysis")
        /\ UNCHANGED result
     \/ /\ branch = "llm"
        /\ llm' = [llm EXCEPT !.keywords = "failed"]
        /\ Fail("API error")
        /\ UNCHANGED <<keywords, selected>>
  /\ UNCHANGED <<cache, config, calls, trendsData, options, postIdeas, content, currentPost,
                 disk, rendered, PipeFrame>>

\* step 2
TrendAnalysis ==
  /\ pc = "TrendAnalysis"
  /\ \E k \in PipelineNetworks :
       LET r == analyzeTrends(config, keywords, cache, now, k) IN
       /\ keywords' = r.keywords
       /\ cache' = r.cache
       /\ calls' = r.calls
       /\ trendsData' = Some(r.trendsData)
  /\ Enter("IdeaGeneration")
  /\ UNCHANGED <<config, options, selected, postIdeas, content, currentPost, result, disk, llm,
                 rendered, PipeFrame>>

\* step 3: the request of generatePostIdeas is awaited with no try around it
IdeaGeneration ==
  /\ pc = "IdeaGeneration"
  /\ \/ /\ \E reply \in IdeaReplies :
             postIdeas' = parsePostIdeasFromResponse(reply, trendsData[1])
        /\ llm' = [llm EXCEPT !.ideas = "ok"]
        /\ Enter(AfterIdeas(options))
        /\ UNCHANGED result
     \/ /\ llm' = [llm EXCEPT !.ideas = "failed"]
        /\ Fail("API error")
        /\ UNCHANGED postIdeas
  /\ UNCHANGED <<cache, config, keywords, calls, trendsData, options, selected, content,
                 currentPost, disk, rendered, PipeFrame>>

PairsOfRun ==
  Pairs(Take(postIdeas, config.output.maxContentPerIdea), PlatformsOf(options, config))

\* step 4, one turn of the loops of generatePlatformContent
RenderPair ==
  /\ pc = "ContentRendering"
  /\ Len(content) < Len(PairsOfRun)
  /\ LET pair == PairsOfRun[Len(content) + 1] IN
     \E out \in ContentOutcomes :
       LET piece == GeneratedFor(pair, out) IN
       /\ content' = Append(content, piece)
       /\ disk' = IF out = "ok"
                  THEN [disk EXCEPT !.postLogs =
                          logPost(disk.postLogs, config.business.name, pair.platform,
                                  piece.text, now)]
                  ELSE disk
       /\ llm' = [llm EXCEPT !.content = @ + 1]
       /\ rendered' = Append(rendered, out)
       /\ IF Len(content) + 1 = Len(PairsOfRun)
          THEN Enter(AfterContent(Append(content, piece)))
          ELSE UNCHANGED <<pc, steps>>
  /\ UNCHANGED <<cache, config, keywords, calls, trendsData, options, selected, postIdeas,
                 currentPost, result, PipeFrame>>

\* step 4 with no idea or no platform: the loops do not turn
RenderNone ==
  /\ pc = "ContentRendering"
  /\ Len(PairsOfRun) = 0
  /\ Enter(AfterContent(content))
  /\ UNCHANGED <<cache, config, keywords, calls, trendsData, options, selected, postIdeas,
                 content, currentPost, result, disk, llm, rendered, PipeFrame>>

\* step 5
Persistence ==
  /\ pc = "Persistence"
  /\ \E fsOut \in SaveFsOutcomes, roll \in Rolls, img \in ImageOutcomes :
       LET twitterPost == PostToSave(content)
           r == saveCurrentPost(config, disk, twitterPost.platform, twitterPost.text,
                                twitterPost.idea, fsOut, roll, img)
       IN  /\ disk' = r.disk
           /\ llm' = [llm EXCEPT !.image = @ + r.prompts]
           /\ IF r.threw
              THEN Fail("filesystem error") /\ UNCHANGED currentPost
              ELSE currentPost' = r.post /\ Enter("Finishing") /\ UNCHANGED result
  /\ UNCHANGED <<cache, config, keywords, calls, trendsData, options, selected, postIdeas,
                 content, rendered, PipeFrame>>

\* the end of the try block: the process log is saved when logToFile is set,
\* and the success result returned
Finish ==
  /\ pc = "Finishing"
  /\ \/ /\ disk' = IF config.output.logToFile
                   THEN [disk EXCEPT !.processLogs = @ + 1] ELSE disk
        /\ result' = Some(SuccessResult(config, keywords, trendsData[1], postIdeas, content,
                                        currentPost))
        /\ Enter("Complete")
     \/ /\ config.output.logToFile
        /\ Fail("filesystem error")
        /\ UNCHANGED disk
  /\ UNCHANGED <<cache, config, keywords, calls, trendsData, options, selected, postIdeas,
                 content, currentPost, llm, rendered, PipeFrame>>

\* cli.ts, main: the exit code for what runPipeline returned (res), or for
\* the rejection of its promise (no result), which main().catch handles
ExitCodeOf(res) ==
  IF res = Null THEN 1
  ELSE IF res[1].status = "error" THEN 4
  ELSE IF Len(res[1].meta.sourcesUsed) = 0 /\ Len(res[1].keywords) > 0 THEN 3
  ELSE 0

\* the process exits once runPipeline has returned or thrown
Exit ==
  /\ pc \in {"Complete", "Error", "Thrown"}
  /\ exitCode = Null
  /\ exitCode' = Some(ExitCodeOf(result))
  /\ UNCHANGED <<cache, config, keywords, calls, trendsData, options, pc, steps, selected,
                 postIdeas, content, currentPost, result, disk, llm, rendered,
                 now, lastOp, lastSet, keyVars, tpc, fnVars>>

Next ==
  \/ Begin
  \/ KeywordSelection
  \/ TrendAnalysis
  \/ IdeaGeneration
  \/ RenderPair
  \/ RenderNone
  \/ Persistence
  \/ Finish
  \/ Exit

Spec == Init /\ [][Next]_vars

\* the runs of the configurations that log to a file and generate images,
\* under every choice of options
LiveConfigs ==
  { c \in PipelineConfigs :
      /\ c.output.logToFile
      /\ c.image.enabled
      /\ c.output.maxContentPerIdea = 2
      /\ c.output.keywordsPerRun = 1 }

LiveInit == Init /\ config \in LiveConfigs

\* every external call returns or fails: a step that can be taken is taken
LiveSpec == LiveInit /\ [][Next]_vars /\ WF_vars(Next)

(***************************************************************************)
(* parsePostIdeasFromResponse on its own, over the replies of the language *)
(* model and the snapshots it can be called with                           *)
(***************************************************************************)
MaxElems == 2

FnFrame == <<cacheVars, keyVars, trendVars, pipeVars, logged>>

\* the elements a JSON array of the reply may hold: an object with some of the
\* four fields, the empty object, and null
IdeaElems ==
  { [object |-> TRUE, concept |-> Some(<<"ETF inflows">>), trend_source |-> Some(<<"News">>),
     relevance_score |-> Some(4), business_benefit |-> Some(<<"reach">>)],
    [object |-> TRUE, concept |-> Some(<<"Fear index">>), trend_source |-> Null,
     relevance_score |-> Some(0), business_benefit |-> Null],
    [object |-> TRUE, concept |-> Some(<<"AI agents">>), trend_source |-> Some(<<"Google">>),
     relevance_score |-> Some(10), business_benefit |-> Null],
    [object |-> TRUE, concept |-> Null, trend_source |-> Null,
     relevance_score |-> Null, business_benefit |-> Null],
    [object |-> FALSE, concept |-> Null, trend_source |-> Null,
     relevance_score |-> Null, business_benefit |-> Null] }

SeqsUpTo(S, n) == UNION { [1..k -> S] : k \in 0..n }

\* an array of n objects whose scores rise and fall
LongReply(n) ==
  [kind |-> "array",
   elems |-> [i \in 1..n |->
                [object |-> TRUE, concept |-> Some(<<"idea ", ToString(i)>>),
                 trend_source |-> Null, relevance_score |-> Some(((i * 3) % 10) + 1),
                 business_benefit |-> Null]]]

LongLengths == {8, 9, 10}

IdeaReplyInputs ==
  { [kind |-> k, elems |-> <<>>] : k \in {"noArray", "badJson"} } \cup
  { [kind |-> "array", elems |-> e] : e \in SeqsUpTo(IdeaElems, MaxElems) } \cup
  { LongReply(n) : n \in LongLengths }

\* a snapshot in which reddit, news and coingecko have data
SampleTrends ==
  [a \in SourceSet |->
     CASE a = "reddit" -> RedditPosts
       [] a = "news" -> rankArticlesByRelevance(FeedArticles)
       [] a = "coingecko" -> parseTrendingResponse(CoinPayload)
       [] OTHER -> <<>>]

TrendsCopies == {"trends.ts", "part_004"}

IdeaInputs ==
  { [fn |-> "parsePostIdeasFromResponse", copy |-> c, reply |-> r, td |-> t] :
    c \in TrendsCopies, r \in IdeaReplyInputs, t \in {EmptyTrends, SampleTrends} }

IdeaInit ==
  /\ arg \in { Some(i) : i \in IdeaInputs }
  /\ ret = Null
  /\ logged = <<>>
  /\ CacheIdle
  /\ KeyIdle
  /\ TrendIdle
  /\ PipeIdle

ParseIdeas ==
  /\ arg # Null
  /\ arg[1].fn = "parsePostIdeasFromResponse"
  /\ ret = Null
  /\ ret' = Some(IF arg[1].copy = "trends.ts"
                 THEN parsePostIdeasFromResponse(arg[1].reply, arg[1].td)
                 ELSE parsePostIdeasFromResponseB(arg[1].reply, arg[1].td))
  /\ UNCHANGED <<arg, FnFrame>>

IdeaNext == ParseIdeas

IdeaSpec == IdeaInit /\ [][IdeaNext]_vars

(***************************************************************************)
(* generatePlatformContent on texts written character by character: one    *)
(* turn of its loop for a pair, a reply of the model and an outcome        *)
(***************************************************************************)
\* how far past 280 characters the replies go
MaxOver == 3

Chars(n, shape) ==
  [i \in 1..n |->
     CASE shape = "words" /\ i % 10 = 0 -> " "
       [] shape = "sentences" /\ i = 200 -> "."
       [] shape = "sentences" /\ i = 201 -> " "
       [] shape = "earlySentence" /\ i = 100 -> "?"
       [] shape = "earlySentence" /\ i = 101 -> " "
       [] shape = "paragraphs" /\ i \in {180, 181} -> "\n"
       [] shape = "tagged" /\ i = 15 -> " "
       [] shape = "tagged" /\ i = 16 -> "#"
       [] OTHER -> "a"]

Shapes == {"solid", "words", "sentences", "earlySentence", "paragraphs", "tagged"}

ReplyLengths == {20} \cup (277..(280 + MaxOver))

\* a reply as it is, and one behind a prefix and inside quotes
CleanReplies ==
  { Chars(n, sh) : n \in ReplyLengths, sh \in Shapes }
  \cup { <<" ", "Tweet:", " ", "\"">> \o Chars(n, "words") \o <<"\"", "\n">> : n \in ReplyLengths }

ConceptLengths == {20, 230}

CleanInputs ==
  { [fn |-> "ContentFor",
     pair |-> [idea |-> [concept |-> Chars(c, "words")], platform |-> pf],
     reply |-> r, out |-> o] :
    c \in ConceptLengths, pf \in {"twitter", "instagram"}, r \in CleanReplies,
    o \in ContentOutcomes }

CleanInit ==
  /\ arg \in { Some(i) : i \in CleanInputs }
  /\ ret = Null
  /\ logged = <<>>
  /\ CacheIdle
  /\ KeyIdle
  /\ TrendIdle
  /\ PipeIdle

RenderOne ==
  /\ arg # Null
  /\ arg[1].fn = "ContentFor"
  /\ ret = Null
  /\ ret' = Some(ContentFor(arg[1].pair, arg[1].reply, arg[1].out))
  /\ UNCHANGED <<arg, FnFrame>>

CleanNext == RenderOne

CleanSpec == CleanInit /\ [][CleanNext]_vars

(***************************************************************************)
(* saveCurrentPost called once, on any configuration of the image step     *)
(***************************************************************************)
ImageConfigs ==
  { [enabled |-> en, imageChance |-> ch] : en \in BOOLEAN, ch \in {0, 5, 10} }

SaveInputs ==
  { [fn |-> "saveCurrentPost", cfg |-> [ExampleConfig EXCEPT !.image = im], d |-> d,
     platform |-> pf, postText |-> <<"gm ", pf>>, idea |-> <<"ETF inflows">>,
     fsOut |-> fsOut, roll |-> roll, img |-> img] :
    im \in ImageConfigs, d \in {EmptyDisk, OldDisk}, pf \in {"twitter", "instagram"},
    fsOut \in SaveFsOutcomes, roll \in Rolls, img \in ImageOutcomes }

SaveInit ==
  /\ arg \in { Some(i) : i \in SaveInputs }
  /\ ret = Null
  /\ logged = <<>>
  /\ CacheIdle
  /\ KeyIdle
  /\ TrendIdle
  /\ PipeIdle

SavePost ==
  /\ arg # Null
  /\ arg[1].fn = "saveCurrentPost"
  /\ ret = Null
  /\ ret' = Some(saveCurrentPost(arg[1].cfg, arg[1].d, arg[1].platform, arg[1].postText,
                                 arg[1].idea, arg[1].fsOut, arg[1].roll, arg[1].img))
  /\ UNCHANGED <<arg, FnFrame>>

SaveNext == SavePost

SaveSpec == SaveInit /\ [][SaveNext]_vars

(***************************************************************************)
(* Logger.logPost called again and again while the clock runs              *)
(***************************************************************************)
\* how many posts are logged
MaxPosts == 3

\* two posts that begin with the same six words, and one that does not
LogTexts == { <<"gm frens", "up only">>, <<"gm frens", "stay safe">>, <<"wagmi">> }

LogPlatforms == {"twitter", "instagram"}

LogInit ==
  /\ disk = EmptyDisk
  /\ logged = <<>>
  /\ arg = Null
  /\ ret = Null
  /\ CacheIdle
  /\ KeyIdle
  /\ TrendIdle
  /\ PipeIdle

LogPost ==
  /\ Len(logged) < MaxPosts
  /\ \E platform \in LogPlatforms, postText \in LogTexts :
       /\ disk' = [disk EXCEPT !.postLogs =
                     logPost(disk.postLogs, config.business.name, platform, postText, now)]
       /\ logged' = Append(logged, [platform |-> platform, text |-> postText, at |-> now])
  /\ UNCHANGED <<cache, now, lastOp, lastSet, keyVars, trendVars, options, pc, steps, selected,
                 postIdeas, content, currentPost, result, llm, rendered, exitCode, arg, ret>>

\* half a second passes
LogTick ==
  /\ now + 500 <= MaxClock
  /\ now' = now + 500
  /\ UNCHANGED <<cache, lastOp, lastSet, keyVars, trendVars, pipeVars, fnVars>>

LogNext == LogPost \/ LogTick

LogSpec == LogInit /\ [][LogNext]_vars

(***************************************************************************)
(* generatePlatformContent, await by await: each turn of its loops reads   *)
(* the recent posts, sends its request, logs the cleaned reply and pushes  *)
(* its entry                                                               *)
(***************************************************************************)
RenderIdeas ==
  { [concept |-> c] : c \in { <<"ETF inflows">>, <<"ETF inflows", " again">>, <<"AI agents">> } }

RenderInputs ==
  { [fn |-> "generatePlatformContent", selectedIdeas |-> ideas, platforms |-> pfs] :
    ideas \in { <<i>> : i \in RenderIdeas } \cup { <<i, j>> : i, j \in RenderIdeas },
    pfs \in { <<"twitter">>, <<"twitter", "instagram">> } }

\* a post log of an earlier run
OldLogs == <<[name |-> <<<<"gm">>, "DgenKing", "twitter", 0>>, text |-> <<"gm">>]>>

RenderInit ==
  /\ arg \in { Some(i) : i \in RenderInputs }
  /\ ret = Null
  /\ logged = <<>>
  /\ disk \in { EmptyDisk, [EmptyDisk EXCEPT !.postLogs = OldLogs] }
  /\ pc = "read"
  /\ options = NoOptions
  /\ steps = <<>>
  /\ selected = Null
  /\ postIdeas = <<>>
  /\ content = <<>>
  /\ currentPost = Null
  /\ result = Null
  /\ llm = NoLlm
  /\ rendered = <<>>
  /\ exitCode = Null
  /\ CacheIdle
  /\ KeyIdle
  /\ TrendIdle

RenderPairs == Pairs(arg[1].selectedIdeas, arg[1].platforms)

RenderFrame ==
  <<cacheVars, keyVars, trendVars, options, steps, selected, postIdeas, currentPost, result,
    exitCode, arg>>

\* the entry of the turn is pushed and the loops go on
Push(entry, out) ==
  /\ content' = Append(content, entry)
  /\ rendered' = Append(rendered, out)
  /\ pc' = IF Len(content) + 1 = Len(RenderPairs) THEN "done" ELSE "read"
  /\ ret' = Null

\* "await Logger.getRecentPostSnippets(10)"
ReadRecent ==
  /\ pc = "read"
  /\ Len(content) < Len(RenderPairs)
  /\ \E order \in ReadDirOrders(Len(disk.postLogs)) :
       logged' = Append(logged,
                        [log |-> disk.postLogs,
                         seen |-> getRecentPostSnippets(Some(disk.postLogs), 10, order)])
  /\ pc' = "request"
  /\ UNCHANGED <<content, rendered, disk, llm, ret, RenderFrame>>

\* "await makeRequest(prompt, 1000)" and the cleanup of the reply; a failed
\* request lands in the catch of the turn
SendRequest ==
  /\ pc = "request"
  /\ llm' = [llm EXCEPT !.content = @ + 1]
  /\ LET pair == RenderPairs[Len(content) + 1] IN
     \/ /\ ret' = Some(GeneratedFor(pair, "ok"))
        /\ pc' = "log"
        /\ UNCHANGED <<content, rendered>>
     \/ Push(GeneratedFor(pair, "requestFails"), "requestFails")
  /\ UNCHANGED <<disk, logged, RenderFrame>>

\* "await Logger.logPost(...)" and the push; a failed write lands in the catch
LogAndPush ==
  /\ pc = "log"
  /\ LET pair == RenderPairs[Len(content) + 1] IN
     \/ /\ disk' = [disk EXCEPT !.postLogs =
                      logPost(disk.postLogs, config.business.name, pair.platform,
                              ret[1].text, now)]
        /\ Push(ret[1], "ok")
     \/ /\ Push(GeneratedFor(pair, "logFails"), "logFails")
        /\ UNCHANGED disk
  /\ UNCHANGED <<llm, logged, RenderFrame>>

RenderNext == ReadRecent \/ SendRequest \/ LogAndPush

RenderSpec == RenderInit /\ [][RenderNext]_vars

(***************************************************************************)
(* getRecentPostSnippets called once on a directory of post logs           *)
(***************************************************************************)
\* how many post logs the directory holds
MaxFiles == 4

\* the i-th post logged, one a second, each with words of its own
LoggedPost(i) ==
  LET postText == <<ToString(MaxFiles + 1 - i), " gm">> IN
  [name |-> PostLogName(Business.name, "twitter", postText, 1000 * i), text |-> postText]

RecentLimits == {0, 1, 2, 10}

RecentInputs ==
  { [fn |-> "getRecentPostSnippets", dir |-> Null, limit |-> n, order |-> <<>>] :
    n \in RecentLimits }
  \cup
  UNION { { [fn |-> "getRecentPostSnippets", dir |-> Some([i \in 1..k |-> LoggedPost(i)]),
             limit |-> n, order |-> o] : n \in RecentLimits, o \in ReadDirOrders(k) } :
          k \in 0..MaxFiles }

RecentInit ==
  /\ arg \in { Some(i) : i \in RecentInputs }
  /\ ret = Null
  /\ logged = <<>>
  /\ CacheIdle
  /\ KeyIdle
  /\ TrendIdle
  /\ PipeIdle

ReadRecentPosts ==
  /\ arg # Null
  /\ arg[1].fn = "getRecentPostSnippets"
  /\ ret = Null
  /\ ret' = Some(getRecentPostSnippets(arg[1].dir, arg[1].limit, arg[1].order))
  /\ UNCHANGED <<arg, FnFrame>>

RecentNext == ReadRecentPosts

RecentSpec == RecentInit /\ [][RecentNext]_vars

(***************************************************************************)
(* One adapter called again and again while the clock runs: each call goes *)
(* from the cache lookup to the return                                     *)
(***************************************************************************)
\* how many hours the clock runs
MaxHours == 5

AllSourcesOn ==
  [googleTrends |-> TRUE, xcom |-> TRUE, coingecko |-> TRUE,
   reddit |-> [enabled |-> TRUE, credentials |-> TRUE],
   news |-> [enabled |-> TRUE]]

\* the same keywords in two orders
KeywordOrders == {<<"eth", "btc">>, <<"btc", "eth">>}

AdapterInit ==
  /\ arg \in { Some([fn |-> "adapter", a |-> a]) : a \in SourceSet }
  /\ ret = Null
  /\ logged = <<>>
  /\ config = [ExampleConfig EXCEPT !.sources = AllSourcesOn]
  /\ keywords = <<>>
  /\ calls = NoCalls
  /\ trendsData = Null
  /\ tpc = "idle"
  /\ CacheIdle
  /\ KeyIdle
  /\ PipeIdle

\* the entry the map holds under a key, if any
EntryOf(c, key) == IF key \in DOMAIN c THEN Some(c[key]) ELSE Null

\* one call of the adapter, with the answers net to its requests if it makes
\* any; logged holds the record of the latest call and ret the keywords of
\* the call that stored the latest entry
AdapterCall ==
  /\ arg # Null
  /\ arg[1].fn = "adapter"
  /\ \E kws \in KeywordOrders :
     \E net \in NetsOf(arg[1].a, kws) :
       LET a == arg[1].a
           key == CacheKeyOf(config, a, kws)
           first == CallAdapter(config, a, kws, cache, now)
           r == IF first.status = "pending"
                THEN FetchAdapter(config, a, kws, first.cache, now, net)
                ELSE first
       IN  /\ cache' = r.cache
           /\ logged' = <<[a |-> a, kws |-> kws, at |-> now,
                           before |-> EntryOf(cache, key),
                           net |-> IF first.status = "pending" THEN net ELSE <<>>,
                           value |-> r.value,
                           after |-> EntryOf(r.cache, key)]>>
           /\ ret' = IF first.status = "pending" /\ EntryOf(r.cache, key) # Null
                     THEN Some(kws) ELSE ret
  /\ UNCHANGED <<now, lastOp, lastSet, keyVars, trendVars, pipeVars, arg>>

\* an hour passes
HourTick ==
  /\ arg # Null
  /\ arg[1].fn = "adapter"
  /\ now + 3600000 <= MaxHours * 3600000
  /\ now' = now + 3600000
  /\ UNCHANGED <<cache, lastOp, lastSet, keyVars, trendVars, pipeVars, fnVars>>

AdapterNext == AdapterCall \/ HourTick

AdapterSpec == AdapterInit /\ [][AdapterNext]_vars

(***************************************************************************)
(* Claims                                                                  *)
(***************************************************************************)

\* C5, in every state: a get on an entry whose expiry is at or before the
\* current time returns null and leaves the map without the entry.
C5_ExpiredGet ==
  (lastOp.op = "get" /\ lastOp.had # Null /\ lastOp.had[1].expires <= lastOp.at)
    => (lastOp.ret = Null /\ lastOp.key \notin DOMAIN cache)

\* C5, in every step: a key leaves the map only in a get on that key, and
\* only when its entry had expired.
C5_OnlyGetRemoves ==
  \A k \in DOMAIN cache :
    (k \notin DOMAIN cache')
      => (lastOp'.op = "get" /\ lastOp'.key = k /\ cache[k].expires <= now)

\* C5: get never returns the data of an entry whose expiry time is at or
\* before the current time; a get on such an entry returns null and removes
\* the entry from the map, and no other operation removes an entry.
C5_NoReadAfterExpiry == [](C5_ExpiredGet) /\ [][C5_OnlyGetRemoves]_vars

\* C5 witness: a get has found an expired entry and evicted it.
C5_Witness ==
  /\ lastOp.op = "get"
  /\ lastOp.had # Null
  /\ lastOp.had[1].expires <= lastOp.at
  /\ lastOp.key \notin DOMAIN cache

\* C6: a get on k returns the value of the latest set on k while fewer than
\* ttl seconds have passed since that set (in particular right after it),
\* and returns null once ttl seconds have passed; the latest set decides
\* both the value and the expiry.
C6_SetThenGet ==
  (lastOp.op = "get" /\ lastSet[lastOp.key] # Null)
    => LET s == lastSet[lastOp.key][1] IN
       lastOp.ret = IF lastOp.at < s.at + (s.ttl * 1000) THEN Some(s.data) ELSE Null

\* C6 witness: a second set on a key, with another value and at a later time,
\* has been read back by a get with no clock advance in between.
C6_Witness ==
  /\ lastOp.op = "get"
  /\ lastSet[lastOp.key] # Null
  /\ lastSet[lastOp.key][1].at = lastOp.at
  /\ lastOp.at > 0
  /\ lastOp.had # Null
  /\ lastOp.ret = Some(lastSet[lastOp.key][1].data)

\* C7: generateKey yields the same key for two insertion orders of the same
\* name/value pairs, for every prefix.
C7_KeyOrderIndependent ==
  keyOut # Null => keyOut[1].a = keyOut[1].b

\* C7 witness: keys were derived for two different insertion orders.
C7_Witness ==
  /\ keyOut # Null
  /\ keyIn[1].a # keyIn[1].b
  /\ Len(keyIn[1].a) = 3

\* the requests of the adapter call of source a all failed (for reddit: the
\* token request or the searches)
FetchFailed(a) ==
  /\ calls[a].net # <<>>
  /\ IF a = "reddit" THEN calls[a].net[2] \in FailureKinds
     ELSE \A i \in 1..Len(calls[a].net) : calls[a].net[i] \in FailureKinds

\* C1: analyzeTrends returns a snapshot whatever the adapters' outcomes; each
\* source whose adapter succeeded holds that adapter's result, and each source
\* whose adapter failed or was switched off is an empty list.
C1_SnapshotMatchesOutcomes ==
  tpc = "returned" =>
    /\ trendsData # Null
    /\ \A a \in SourceSet :
         IF Attempted(config, a) /\ ~FetchFailed(a)
         THEN trendsData[1][a] = calls[a].value
         ELSE trendsData[1][a] = <<>>

\* C4: an adapter call whose requests fail (network error, non-2xx status or
\* unparseable payload) settles fulfilled with an empty list.
C4_FailedFetchGivesEmpty ==
  \A a \in SourceSet :
    FetchFailed(a) => (calls[a].status = "fulfilled" /\ calls[a].value = <<>>)

\* C2: runPipeline never ends as a rejected promise, whatever step fails; a
\* call that is over has resolved with a result whose status is "success" or
\* "error".
C2_NeverPropagates ==
  /\ pc # "Thrown"
  /\ pc \in {"Complete", "Error"} =>
       (result # Null /\ result[1].status \in {"success", "error"})

\* C3: a result of status "error" has an error message, empty keywords,
\* postIdeas and content, five empty trend lists, a null currentPost, and
\* keywordCount, ideasGenerated and contentPieces 0, whatever the run had
\* produced before the failure.
C3_ErrorResultIsEmpty ==
  (result # Null /\ result[1].status = "error") =>
    /\ result[1].error # Null
    /\ result[1].keywords = <<>>
    /\ result[1].postIdeas = <<>>
    /\ result[1].content = <<>>
    /\ DOMAIN result[1].trends = SourceSet
    /\ \A a \in SourceSet : result[1].trends[a] = <<>>
    /\ result[1].currentPost = Null
    /\ result[1].meta.keywordCount = 0
    /\ result[1].meta.ideasGenerated = 0
    /\ result[1].meta.contentPieces = 0

\* C3 witness: an error result of a run that had keywords, trends, ideas and
\* content when it failed.
C3_Witness ==
  /\ result # Null
  /\ result[1].status = "error"
  /\ keywords # <<>>
  /\ Len(postIdeas) > 0
  /\ Len(content) > 0

\* the positions of the pool entries that are not blank
NonBlankPositions ==
  { i \in 1..Len(config.output.keywords) : config.output.keywords[i] \notin {"", " "} }

\* C8: the keywords of the caller are used when there are any; otherwise,
\* when the pool has a non-blank entry, the keywords are min(keywordsPerRun,
\* number of non-blank pool entries) such entries from distinct positions of
\* the pool; the language model is asked only when the caller gave none and
\* the pool has no non-blank entry.
C8_KeywordPriority ==
  /\ selected # Null =>
       IF Len(options.keywords) > 0
       THEN selected[1].keywords = options.keywords /\ llm.keywords = "none"
       ELSE IF NonBlankPositions # {}
       THEN /\ Len(selected[1].keywords) =
                 Min(config.output.keywordsPerRun, Cardinality(NonBlankPositions))
            /\ \E f \in [1..Len(selected[1].keywords) -> NonBlankPositions] :
                 /\ \A i, j \in DOMAIN f : i # j => f[i] # f[j]
                 /\ \A i \in DOMAIN f : selected[1].keywords[i] = config.output.keywords[f[i]]
            /\ llm.keywords = "none"
       ELSE llm.keywords = "ok"
  /\ llm.keywords # "none" => (Len(options.keywords) = 0 /\ NonBlankPositions = {})

\* C8 witness: with no keywords from the caller, one keyword was drawn from a
\* pool of two non-blank entries and a blank one, and it is not the first.
C8_Witness ==
  /\ selected # Null
  /\ options.keywords = <<>>
  /\ config.output.keywords = <<"sol", " ", "ai">>
  /\ selected[1].keywords = <<"ai">>

StepOrder ==
  <<"KeywordSelection", "TrendAnalysis", "IdeaGeneration", "ContentRendering",
    "Persistence", "Complete">>

StepPos(s) == CHOOSE i \in 1..Len(StepOrder) : StepOrder[i] = s

\* C9, in every state: the steps entered so far are in the order of StepOrder,
\* none twice; a step is passed over only if it is ContentRendering and
\* skipContent is set, or Persistence and the content list is empty, and those
\* two are entered only otherwise; nothing follows Complete or Error.
C9_OrderInvariant ==
  /\ \A i \in 1..Len(steps) : i < Len(steps) => steps[i] \notin {"Complete", "Error"}
  /\ steps # <<>> => steps[1] = "KeywordSelection"
  /\ \A i \in 1..(Len(steps) - 1) :
       steps[i + 1] # "Error" =>
         /\ StepPos(steps[i]) < StepPos(steps[i + 1])
         /\ \A j \in (StepPos(steps[i]) + 1)..(StepPos(steps[i + 1]) - 1) :
              \/ StepOrder[j] = "ContentRendering" /\ options.skipContent
              \/ StepOrder[j] = "Persistence" /\ content = <<>>
  /\ (\E i \in 1..Len(steps) : steps[i] = "ContentRendering") => ~options.skipContent
  /\ (\E i \in 1..Len(steps) : steps[i] = "Persistence") => content # <<>>
  /\ pc \in StepNames => (steps # <<>> /\ steps[Len(steps)] = pc)

\* C9: the steps of a run occur in the order KeywordSelection, TrendAnalysis,
\* IdeaGeneration, ContentRendering (only without skipContent), Persistence
\* (only with a non-empty content list), Complete, one at a time and none
\* twice; Error follows a step and, like Complete, nothing follows it.
C9_StepsInOrder ==
  /\ [](C9_OrderInvariant)
  /\ [][pc \notin {"Complete", "Error"}]_<<pc, steps, result, postIdeas, content, currentPost, disk>>

\* C9 witness: a run that went through all five steps and completed.
C9_Witness ==
  /\ pc = "Complete"
  /\ steps = StepOrder

\* C10: when the request of idea generation fails, the ideas of the run are
\* the fallback set and the run goes on, to end with status "success".
C10_IdeaFailureFallsBack ==
  llm.ideas = "failed" =>
    /\ pc # "Error"
    /\ postIdeas = getFallbackPostIdeas(trendsData[1])
    /\ pc = "Complete" => result[1].status = "success"

\* the function of arg has returned
Returned(fn) == arg # Null /\ arg[1].fn = fn /\ ret # Null

\* C11: whatever the language model replies, the idea list is non-empty and
\* every idea in it has an id, a concept, a trend_source and a relevance_score.
C11_IdeasNeverEmpty ==
  Returned("parsePostIdeasFromResponse") =>
    /\ Len(ret[1]) > 0
    /\ \A i \in 1..Len(ret[1]) :
         /\ ret[1][i].id # <<>>
         /\ ret[1][i].concept # <<>>
         /\ ret[1][i].trend_source # <<>>
         /\ ret[1][i].relevance_score \in 0..10

\* C12: the idea list, parsed or fallback, has at most 8 elements and is in
\* the order of non-increasing relevance_score.
C12_IdeasSortedAndCapped ==
  Returned("parsePostIdeasFromResponse") =>
    /\ Len(ret[1]) <= 8
    /\ \A i, j \in 1..Len(ret[1]) :
         i < j => ret[1][i].relevance_score >= ret[1][j].relevance_score

\* the element of the reply that the idea with this id was made from
ElemOf(idea) ==
  arg[1].reply.elems[CHOOSE k \in 1..Len(arg[1].reply.elems) : idea.id = <<"idea_", ToString(k)>>]

\* a field the element supplies is kept, a field it does not supply gets d
KeptOrDefault(supplied, got, d) == got = IF supplied # Null THEN supplied[1] ELSE d

\* C13: for a reply with a valid array, every idea keeps the concept,
\* trend_source, relevance_score and business_benefit its element supplies,
\* a relevance_score of 0 included, and has the default (0.5 for the score)
\* only where the element supplies none.
C13_SuppliedFieldsKept ==
  (/\ Returned("parsePostIdeasFromResponse")
   /\ arg[1].reply.kind = "array"
   /\ \A k \in 1..Len(arg[1].reply.elems) : arg[1].reply.elems[k].object) =>
    \A i \in 1..Len(ret[1]) :
      LET idea == ret[1][i]
          e == ElemOf(idea)
      IN  /\ KeptOrDefault(e.concept, idea.concept, <<"Business idea ", idea.id[2]>>)
          /\ KeptOrDefault(e.trend_source, idea.trend_source, <<"General trend analysis">>)
          /\ KeptOrDefault(e.relevance_score, idea.relevance_score, 5)
          /\ KeptOrDefault(e.business_benefit, idea.business_benefit[1],
                           <<"Provides engagement opportunity">>)

\* step 4 has run to its end
ContentDone ==
  /\ \E i \in 1..Len(steps) : steps[i] = "ContentRendering"
  /\ pc # "ContentRendering"

\* the platforms of the run and the number of ideas content is generated for
PlatformsOfRun ==
  IF options.platforms # Null THEN options.platforms[1] ELSE config.output.platforms

IdeasUsed ==
  IF Len(postIdeas) < config.output.maxContentPerIdea
  THEN Len(postIdeas) ELSE config.output.maxContentPerIdea

C15_FallbackOnlyOnRequestFailure ==
  /\ \A n \in 1..Len(content) :
       content[n].text =
         IF rendered[n] = "requestFails"
         THEN getFallbackContent(PairsOfRun[n].idea, PairsOfRun[n].platform)
         ELSE cleanupGeneratedContent(ModelText(PairsOfRun[n].idea, PairsOfRun[n].platform),
                                      PairsOfRun[n].platform)
  /\ llm.content = Len(content)
  /\ ContentDone => Len(content) = Len(PairsOfRun)

\* C16: every twitter entry of generatePlatformContent has a text of at most
\* 280 characters, whether the text is the cleaned reply or the fallback
C16_TweetWithinLimit ==
  (Returned("ContentFor") /\ ret[1].platform = "twitter") => Len(ret[1].text) <= 280

\* C17: in a success result meta.sourcesUsed lists exactly the sources that
\* contributed data to result.trends; when every adapter failed the five
\* lists are empty and so is sourcesUsed.
C17_SourcesUsedContributed ==
  (pc = "Complete" /\ result # Null /\ result[1].status = "success") =>
    { result[1].meta.sourcesUsed[i] : i \in 1..Len(result[1].meta.sourcesUsed) }
      = { a \in SourceSet : result[1].trends[a] # <<>> }

Contributed(res) == \E a \in SourceSet : res.trends[a] # <<>>

\* C19: the exit code is 0 for a successful run to which at least one source
\* contributed, 3 for a completed run all of whose sources failed, 4 for a
\* result of status "error", and 1 for an exception that left runPipeline.
C19_ExitCodeTellsOutcome ==
  exitCode # Null =>
    CASE pc = "Thrown" -> exitCode[1] = 1
      [] pc = "Error" -> exitCode[1] = 4
      [] OTHER -> exitCode[1] = (IF Contributed(result[1]) THEN 0 ELSE 3)

\* C20: the post log is append-only: every call of logPost adds one record,
\* and the record of every earlier call stays as it was written.
C20_PostLogAppendOnly ==
  /\ Len(disk.postLogs) = Len(logged)
  /\ \A i \in 1..Len(logged) :
       \E j \in 1..Len(disk.postLogs) :
         /\ disk.postLogs[j].name =
              PostLogName(config.business.name, logged[i].platform, logged[i].text, logged[i].at)
         /\ disk.postLogs[j].text = logged[i].text

\* the calls of analyzeTrends that have not settled
PendingCalls(cs) == { a \in SourceSet : cs[a].status = "pending" }

\* C21: analyzeTrends has started every adapter call before it waits, and it
\* returns only when every call has settled; a step settles one call with the
\* answers to its own requests and leaves the pending siblings pending,
\* whatever the order in which the calls settle and whichever of them fail.
C21_JoinWaitsForAll ==
  /\ [](tpc = "waiting" => \A a \in SourceSet : calls[a].status # "idle")
  /\ [](tpc = "returned" => PendingCalls(calls) = {})
  /\ [][ /\ tpc' = "returned" => PendingCalls(calls) = {}
         /\ tpc = "waiting" =>
              \A a \in PendingCalls(calls) \ PendingCalls(calls') :
                /\ calls'[a].net # <<>>
                /\ PendingCalls(calls') = PendingCalls(calls) \ {a} ]_trendVars

\* C21 witness: analyzeTrends has returned after one call failed and a
\* sibling fetched its data
C21_Witness ==
  /\ tpc = "returned"
  /\ \E a, b \in SourceSet :
       /\ FetchFailed(a)
       /\ calls[b].net # <<>>
       /\ ~FetchFailed(b)
       /\ trendsData[1][b] # <<>>

\* C22: the turns of content rendering run one after the other: a request is
\* sent only when the entries of all earlier pairs have been pushed, and when
\* the pair before rendered successfully its text is in the post log at the
\* moment the next pair reads the recent posts.
C22_RenderingIsSequential ==
  /\ llm.content \in {Len(content), Len(content) + 1}
  /\ pc \in {"read", "request", "done"} => llm.content = Len(content)
  /\ \A k \in 2..Len(logged) :
       (k - 1 <= Len(rendered) /\ rendered[k - 1] = "ok") =>
         \E j \in 1..Len(logged[k].log) : logged[k].log[j].text = content[k - 1].text

\* C22 witness: the second pair has read the recent posts after the first one
\* rendered successfully
C22_Witness ==
  /\ Len(logged) >= 2
  /\ rendered[1] = "ok"
  /\ \E i \in 1..Len(logged[2].seen) : logged[2].seen[i] = content[1].text

\* C23: getRecentPostSnippets(N) returns the posts of the N records written
\* last, all of them when there are fewer than N, and the empty list when the
\* directory is missing.
C23_ReturnsMostRecent ==
  Returned("getRecentPostSnippets") =>
    IF arg[1].dir = Null THEN ret[1] = <<>>
    ELSE LET written == arg[1].dir[1]
             n == Min(arg[1].limit, Len(written))
         IN  /\ Len(ret[1]) = n
             /\ { ret[1][i] : i \in 1..Len(ret[1]) }
                  = { written[i].text : i \in (Len(written) - n + 1)..Len(written) }

\* the requests of a logged adapter call succeeded (for reddit: the token
\* request; for xcom: the page came back)
FetchSucceeded(r) ==
  CASE r.a = "reddit" -> r.net[1] = "ok"
    [] r.a = "xcom" -> r.net[1] \in {"ok", "unparseable"}
    [] r.a = "google" -> \E i \in 1..Len(r.net) : r.net[i] = "ok"
    [] OTHER -> r.net[1] = "ok"

\* C24: a call that finds an unexpired entry under its key returns the data
\* of the entry and makes no request; a call that finds no entry or an
\* expired one makes its requests and stores what it fetched for 2 hours (4
\* hours for news); the order of the keywords does not change the entry used.
C24_CacheHitOrFetch ==
  \A i \in 1..Len(logged) :
    LET r == logged[i]
        ttl == IF r.a = "news" THEN 4 * 3600000 ELSE 2 * 3600000
    IN  /\ CacheKeyOf(config, r.a, r.kws) = CacheKeyOf(config, r.a, SortStrings(r.kws))
        /\ IF r.before # Null /\ r.before[1].expires > r.at
           THEN r.net = <<>> /\ r.value = r.before[1].data /\ r.after = r.before
           ELSE /\ r.net # <<>>
                /\ FetchSucceeded(r) =>
                     r.after = Some([data |-> r.value, expires |-> r.at + ttl])

\* C24 witness: a call with the keywords in one order is served, an hour
\* later, from the entry that a call with the other order stored
C24_Witness ==
  /\ logged # <<>>
  /\ logged[1].a = "google"
  /\ logged[1].kws = <<"eth", "btc">>
  /\ ret = Some(<<"btc", "eth">>)
  /\ logged[1].net = <<>>
  /\ logged[1].at = 3600000
  /\ logged[1].value # <<>>

\* how often a step occurs in the steps of the run
TimesEntered(step) == Cardinality({ i \in 1..Len(steps) : steps[i] = step })

C26_KeywordOrderKept ==
  /\ (selected # Null /\ pc \notin {"KeywordSelection", "TrendAnalysis"}) =>
       keywords = selected[1].keywords
  /\ (pc = "Complete" /\ result # Null /\ result[1].status = "success") =>
       result[1].keywords = Take(selected[1].keywords, config.output.maxKeywords)

\* C27: in every result of runPipeline the counts of meta are the lengths of
\* the lists of the same result: keywordCount of keywords, ideasGenerated of
\* postIdeas and contentPieces of content.
C27_CountsMatchLists ==
  result # Null =>
    /\ result[1].meta.keywordCount = Len(result[1].keywords)
    /\ result[1].meta.ideasGenerated = Len(result[1].postIdeas)
    /\ result[1].meta.contentPieces = Len(result[1].content)

\* every request of a logged adapter call failed (for reddit: the token
\* request or, after it, the searches)
AllRequestsFailed(r) ==
  /\ r.net # <<>>
  /\ IF r.a = "reddit" THEN r.net[2] \in FailureKinds
     ELSE \A i \in 1..Len(r.net) : r.net[i] \in FailureKinds

\* C28: an adapter call whose requests all failed stores no entry under its
\* key, so that the next call with the same inputs goes to the network again.
C28_NoEntryAfterFailure ==
  \A i \in 1..Len(logged) :
    (logged[i].a \in SourceSet /\ AllRequestsFailed(logged[i])) => logged[i].after = Null

\* C29: when runPipeline has returned, post.json exists exactly when the
\* currentPost of the result is not null, and it then holds that post; the
\* post of an earlier run is gone however the run ended, and an image is there
\* only if this run went through its persistence step.
C29_ArtifactMatchesResult ==
  (pc \in {"Complete", "Error"} /\ result # Null) =>
    /\ disk.postJson # Null <=> result[1].currentPost # Null
    /\ result[1].currentPost # Null => disk.postJson = result[1].currentPost
    /\ disk.postJson # Some(OldPost)
    /\ disk.image => TimesEntered("Persistence") = 1

\* C30: every run ends in Complete or Error: with every external call
\* returning or failing the run goes on until the process exits, no step
\* follows the exit, and at the exit runPipeline has reached Complete or
\* Error; on the way it makes at most one content request per (idea,
\* platform) pair and one image-prompt request (the keyword request and the
\* idea request are single steps of the run).
C30_RunTerminates ==
  /\ exitCode # Null => pc \in {"Complete", "Error"}
  /\ llm.content <= Len(PairsOfRun)
  /\ llm.image <= 1

====
